---- MODULE Spec2Model ----
(***************************************************************************)
(* Model of the uploader package of frigate-gdrive-instant-uploader:       *)
(*   src/uploader/generic.py       EventInfo, GenericUploader.upload       *)
(*   src/uploader/google_drive.py  GoogleDriverUploader                    *)
(*   src/uploader/webdav.py        WebDavUploader                          *)
(*                                                                         *)
(* Every worker runs one upload() (or one create_event_folder()) call at a *)
(* time; the program counter of a worker names the source line it is at.   *)
(* Google Drive, the Frigate HTTP server and the retry database are the    *)
(* environment: each of their answers is a nondeterministic choice.        *)
(***************************************************************************)
EXTENDS Integers, Sequences, FiniteSets, TLC

VARIABLES
    TIMEZONE,   \* generic.py:16, read once at import
    pc,         \* per worker: the statement it is at
    frame,      \* per worker: the locals of the running call
    outcome,    \* per worker: how the last call ended
    raised,     \* per worker: the exception the running call raised, or ""
    trace,      \* per worker: the collaborator calls of the running call, in order
    drive,      \* Google Drive: the folders that exist
    uploaded,   \* Google Drive: the files that exist
    nextId,     \* Google Drive: the next fresh object id
    store,      \* retry database: one row per event id
    tempfiles,  \* open temporary files: descriptor -> owner
    sent,       \* what upload() calls handed to the backend, over all calls
    history     \* folder scenario: the call before the last one, if it returned

vars == <<TIMEZONE, pc, frame, outcome, raised, trace, drive, uploaded, nextId, store,
          tempfiles, sent, history>>

Workers == {"w1", "w2"}

----------------------------------------------------------------------------
(* Bounds of the model *)

\* Drive holds at most this many folders (folder creation beyond it fails
\* with an HttpError, as a full quota does): in the upload scenarios, and in
\* the folder scenario.
MaxFolders == 5
MaxDirectFolders == 3
\* A response body arrives in at most this many chunks.
MaxChunks == 2
\* The retry scheduler counts tries up to here.
MaxTries == 11

(* Program constants *)
TriesLimit == 10
HTTP_OK == 200
HTTP_ERROR == 500
HTTP_NOT_FOUND == 404

ClipMessage == "Could not create clip from recordings"

----------------------------------------------------------------------------
(* Raw event data: a dict; "has" is its key set.  numeric = FALSE says the *)
(* value under start_time is a string, not a number.                      *)

Keys == {"id", "camera", "start_time"}

RawEvent(has, id, camera, st, numeric) ==
    [has |-> has, id |-> id, camera |-> camera, start_time |-> st, numeric |-> numeric]

\* 2023-11-14 22:13:20 UTC
EvA == RawEvent(Keys, "abc123", "front_door", 1700000000, TRUE)
\* 2023-12-31 21:00:00 UTC
EvB == RawEvent(Keys, "def456", "yard", 1704056400, TRUE)
EvNoId == RawEvent(Keys \ {"id"}, "", "front_door", 1700000000, TRUE)
EvNoCamera == RawEvent(Keys \ {"camera"}, "abc123", "", 1700000000, TRUE)
EvNoStart == RawEvent(Keys \ {"start_time"}, "abc123", "front_door", 0, TRUE)
EvStrStart == RawEvent(Keys, "abc123", "front_door", 1700000000, FALSE)

ValidEvents == {EvA, EvB}
MalformedEvents == {EvNoId, EvNoCamera, EvNoStart, EvStrStart}
Events == ValidEvents \cup MalformedEvents
EventIds == {"abc123", "def456"}

\* pytz zones without daylight saving time at the instants above, with their
\* offsets from UTC in seconds.
Zones == {"UTC", "Europe/Istanbul"}
UtcOffset(zone) == IF zone = "Europe/Istanbul" THEN 10800 ELSE 0

----------------------------------------------------------------------------
(* datetime: the proleptic Gregorian calendar of datetime.fromtimestamp   *)

SecondsPerDay == 86400

\* days since 1970-01-01 -> [year, month, day]
CivilFromDays(days) ==
    LET z    == days + 719468
        era  == z \div 146097
        doe  == z - era * 146097
        yoe  == (doe - doe \div 1460 + doe \div 36524 - doe \div 146096) \div 365
        doy  == doe - (365 * yoe + yoe \div 4 - yoe \div 100)
        mp   == (5 * doy + 2) \div 153
        d    == doy - (153 * mp + 2) \div 5 + 1
        m    == IF mp < 10 THEN mp + 3 ELSE mp - 9
        y    == yoe + era * 400 + (IF m <= 2 THEN 1 ELSE 0)
    IN  [year |-> y, month |-> m, day |-> d]

\* datetime.fromtimestamp(t, utc).astimezone(zone): the wall clock fields
AsTimezone(t, zone) ==
    LET local == t + UtcOffset(zone)
        date  == CivilFromDays(local \div SecondsPerDay)
        sod   == local % SecondsPerDay
    IN  [year |-> date.year, month |-> date.month, day |-> date.day,
         hour |-> sod \div 3600, minute |-> (sod % 3600) \div 60, second |-> sod % 60]

\* strftime's %m, %d, %H, %M, %S: two digits, zero padded
Pad2(n) == IF n < 10 THEN "0" \o ToString(n) ELSE ToString(n)

\* strftime('%Y-%m-%d-%H-%M-%S')
Strftime(dt) ==
    ToString(dt.year) \o "-" \o Pad2(dt.month) \o "-" \o Pad2(dt.day) \o "-"
        \o Pad2(dt.hour) \o "-" \o Pad2(dt.minute) \o "-" \o Pad2(dt.second)

----------------------------------------------------------------------------
(* EventInfo *)

\* EventInfo.from_event_dict + __post_init__: the exception it raises, or "".
FromEventDictError(event) ==
    IF "id" \notin event.has THEN "KeyError"
    ELSE IF "camera" \notin event.has THEN "KeyError"
    ELSE IF "start_time" \notin event.has THEN "KeyError"
    ELSE IF ~event.numeric THEN "TypeError"
    ELSE ""

\* The EventInfo built from a well-formed event.
from_event_dict(event, zone) ==
    [event_id |-> event.id, camera_name |-> event.camera,
     start_time |-> event.start_time,
     start_time_local |-> AsTimezone(event.start_time, zone)]

\* Mutant of generate_filename: the name is numbered by the files already
\* uploaded.
generate_filename_numbered(event_info) ==
    Strftime(event_info.start_time_local) \o "__" \o event_info.camera_name
        \o "__" \o event_info.event_id \o "_" \o ToString(Cardinality(uploaded)) \o ".mp4"

generate_filename(event_info) ==
    Strftime(event_info.start_time_local) \o "__" \o event_info.camera_name
        \o "__" \o event_info.event_id \o ".mp4"

\* joinpath(base, component, ...): pathlib's Path takes str components only,
\* what start_time_local.year, .month and .day are not.
JoinpathError(base) == IF base.kind = "Path" THEN "TypeError" ELSE ""

generate_folder_path(event_info, base) ==
    [kind |-> base.kind,
     parts |-> base.parts \o <<ToString(event_info.start_time_local.year),
                               ToString(event_info.start_time_local.month),
                               ToString(event_info.start_time_local.day)>>]

----------------------------------------------------------------------------
(* Uploaders.  folder = "generic" is GenericUploader.upload_folder,       *)
(* Path(UPLOAD_DIR); folder = "segments" is an uploader that overwrites   *)
(* the property with a path object that takes any component and iterates  *)
(* over its segments (what create_event_folder's for loop asks of it).    *)

UPLOAD_DIR == "frigate"

Uploader(class, folder) == [class |-> class, folder |-> folder]
Classes == {"GoogleDriverUploader", "WebDavUploader"}
Uploaders == {Uploader(c, f) : c \in Classes, f \in {"generic", "segments"}}

upload_folder(uploader) ==
    [kind |-> IF uploader.folder = "generic" THEN "Path" ELSE "Segments",
     parts |-> <<UPLOAD_DIR>>]

FRIGATE_URL == "http://frigate:5000"
generate_video_url(frigate_url, event_id) ==
    frigate_url \o "/api/events/" \o event_id \o "/clip.mp4"

RECURSIVE JoinParts(_)
JoinParts(parts) ==
    IF parts = <<>> THEN ""
    ELSE IF Len(parts) = 1 THEN parts[1]
    ELSE parts[1] \o "/" \o JoinParts(Tail(parts))

----------------------------------------------------------------------------
(* State of a call *)

NoEventInfo ==
    [event_id |-> "", camera_name |-> "", start_time |-> 0,
     start_time_local |-> AsTimezone(0, "UTC")]
NoPath == [kind |-> "", parts |-> <<>>]
NoResponse == [status_code |-> 0, body |-> "", chunks |-> 0, breaks |-> FALSE]

\* 0 stands for None where an id, a descriptor or a handle is meant.
None == 0

NoFrame ==
    [entry |-> "", event |-> EvA, uploader |-> Uploader("", ""),
     event_info |-> NoEventInfo, filename |-> "", folder_path |-> NoPath,
     video_url |-> "", folder_returned |-> FALSE, folder_info |-> None,
     fh |-> None, written |-> 0, pos |-> 0, response |-> NoResponse,
     upload_answer |-> "", upload_result |-> "", tries_read |-> -1,
     part |-> 0, frigate_folder_id |-> None, created |-> 0]

Row(tries, uploaded_flag, retry) ==
    [tries |-> tries, uploaded |-> uploaded_flag, retry |-> retry]

InitialTries == {0, TriesLimit - 1, TriesLimit, MaxTries}

TypeOK ==
    /\ TIMEZONE \in Zones
    /\ pc \in [Workers -> STRING]
    /\ outcome \in [Workers -> {"none", "True", "False", "raise", "None", "handle"}]
    /\ raised \in [Workers -> STRING]
    /\ DOMAIN frame = Workers
    /\ DOMAIN trace = Workers
    /\ nextId \in Nat
    /\ DOMAIN store = EventIds

InitCommon ==
    /\ TIMEZONE \in Zones
    /\ pc = [p \in Workers |-> "idle"]
    /\ frame = [p \in Workers |-> NoFrame]
    /\ outcome = [p \in Workers |-> "none"]
    /\ raised = [p \in Workers |-> ""]
    /\ trace = [p \in Workers |-> <<>>]
    /\ drive = {}
    /\ uploaded = {}
    /\ nextId = 1
    /\ \E n \in InitialTries : store = [id \in EventIds |-> Row(n, 1, 1)]
    /\ tempfiles = {}
    /\ sent = {}
    /\ history = <<>>

----------------------------------------------------------------------------
(* How a call ends *)

\* Mutant of CloseTempfile: the file is opened without a with block and
\* never closed.
CloseTempfileNever(files, p) == files

\* "with tempfile.TemporaryFile() as fh" closes fh on every way out.
CloseTempfile(files, p) == {f \in files : f.owner # p}

\* Mutant of Return: the value is dropped and True is returned.
ReturnAlwaysTrue(p, value) ==
    /\ outcome' = [outcome EXCEPT ![p] = "True"]
    /\ pc' = [pc EXCEPT ![p] = "done"]
    /\ tempfiles' = CloseTempfile(tempfiles, p)
    /\ UNCHANGED raised

\* return <value> (from inside or outside the with block)
Return(p, value) ==
    /\ outcome' = [outcome EXCEPT ![p] = IF value THEN "True" ELSE "False"]
    /\ pc' = [pc EXCEPT ![p] = "done"]
    /\ tempfiles' = CloseTempfile(tempfiles, p)
    /\ UNCHANGED raised

\* an exception raised outside the try statement (lines 88 to 98): it
\* reaches the caller of upload()
Escape(p, exc) ==
    /\ outcome' = [outcome EXCEPT ![p] = "raise"]
    /\ raised' = [raised EXCEPT ![p] = exc]
    /\ pc' = [pc EXCEPT ![p] = "done"]
    /\ UNCHANGED tempfiles

\* Mutant of Caught: only "except requests.RequestException" is there, so
\* an ssl.SSLError or a broken stream leaves upload().
CaughtRequestsOnly(p, exc) ==
    /\ outcome' = [outcome EXCEPT ![p] =
                      IF exc \in {"ConnectionError", "Timeout"} THEN "False" ELSE "raise"]
    /\ raised' = [raised EXCEPT ![p] = exc]
    /\ pc' = [pc EXCEPT ![p] = "done"]
    /\ tempfiles' = CloseTempfile(tempfiles, p)

\* an exception raised inside the try statement: the with block closes fh,
\* then one of the two except clauses (lines 120 to 125) returns False
Caught(p, exc) ==
    /\ outcome' = [outcome EXCEPT ![p] = "False"]
    /\ raised' = [raised EXCEPT ![p] = exc]
    /\ pc' = [pc EXCEPT ![p] = "done"]
    /\ tempfiles' = CloseTempfile(tempfiles, p)

Log(p, call) == trace' = [trace EXCEPT ![p] = Append(@, call)]

----------------------------------------------------------------------------
(* GenericUploader.upload, lines 84 to 98 *)

\* A caller invokes upload(event, frigate_url) on some uploader.
Call(p, events, uploaders) ==
    /\ pc[p] \in {"idle", "done"}
    /\ \E event \in events, uploader \in uploaders :
         frame' = [frame EXCEPT ![p] =
                      [NoFrame EXCEPT !.entry = "upload", !.event = event,
                                      !.uploader = uploader]]
    /\ pc' = [pc EXCEPT ![p] = "from_event_dict"]
    /\ outcome' = [outcome EXCEPT ![p] = "none"]
    /\ raised' = [raised EXCEPT ![p] = ""]
    /\ trace' = [trace EXCEPT ![p] = <<>>]
    /\ UNCHANGED <<TIMEZONE, drive, uploaded, nextId, store, tempfiles, sent, history>>

\* line 88
FromEventDict(p) ==
    /\ pc[p] = "from_event_dict"
    /\ LET err == FromEventDictError(frame[p].event) IN
         IF err # ""
         THEN /\ Escape(p, err)
              /\ UNCHANGED frame
         ELSE /\ frame' = [frame EXCEPT ![p].event_info =
                              from_event_dict(frame[p].event, TIMEZONE)]
              /\ pc' = [pc EXCEPT ![p] = "generate_names"]
              /\ UNCHANGED <<outcome, raised, tempfiles>>
    /\ UNCHANGED <<TIMEZONE, trace, drive, uploaded, nextId, store, sent, history>>

\* lines 90 to 93
GenerateNames(p) ==
    /\ pc[p] = "generate_names"
    /\ LET f    == frame[p]
           base == upload_folder(f.uploader)
           err  == JoinpathError(base) IN
         IF err # ""
         THEN /\ Escape(p, err)
              /\ frame' = [frame EXCEPT ![p].filename = generate_filename(f.event_info)]
         ELSE /\ frame' = [frame EXCEPT ![p] =
                  [f EXCEPT !.filename = generate_filename(f.event_info),
                            !.folder_path = generate_folder_path(f.event_info, base),
                            !.video_url = generate_video_url(FRIGATE_URL, f.event_info.event_id)]]
              /\ pc' = [pc EXCEPT ![p] = "create_event_folder"]
              /\ UNCHANGED <<outcome, raised, tempfiles>>
    /\ UNCHANGED <<TIMEZONE, trace, drive, uploaded, nextId, store, sent, history>>

----------------------------------------------------------------------------
(* GoogleDriverUploader.create_event_folder and find_or_create_folder *)

\* files().list(q=...): the folders the query of lines 31 to 33 matches.  With
\* parent_id None the query names no parent.
ListQuery(folders, name, parent_id) ==
    {d \in folders : d.name = name /\ (parent_id # None => d.parent = parent_id)}

ApiAnswers == {"ok", "HttpError", "OtherError"}

DriveQuota(entry) == IF entry = "upload" THEN MaxFolders ELSE MaxDirectFolders

\* Mutant of FolderReturn: lines 97 and 98 are missing, upload() goes on
\* without a folder.
FolderReturnUnchecked(p, f, handle) ==
    /\ frame' = [frame EXCEPT ![p] =
                    [f EXCEPT !.folder_info = handle, !.folder_returned = TRUE]]
    /\ pc' = [pc EXCEPT ![p] = IF f.entry = "upload" THEN "TemporaryFile" ELSE "done"]
    /\ UNCHANGED <<outcome, raised, tempfiles, history>>

\* create_event_folder returns handle (None for failure) to its caller: to
\* line 95 of upload(), or to whoever called it directly.
FolderReturn(p, f, handle) ==
    IF f.entry = "upload"
    THEN /\ frame' = [frame EXCEPT ![p] =
                         [f EXCEPT !.folder_info = handle, !.folder_returned = TRUE]]
         /\ IF handle = None
            THEN Return(p, FALSE)
            ELSE /\ pc' = [pc EXCEPT ![p] = "TemporaryFile"]
                 /\ UNCHANGED <<outcome, raised, tempfiles>>
         /\ UNCHANGED history
    ELSE /\ frame' = [frame EXCEPT ![p] =
                         [f EXCEPT !.folder_info = handle, !.folder_returned = TRUE]]
         /\ outcome' = [outcome EXCEPT ![p] = IF handle = None THEN "None" ELSE "handle"]
         /\ pc' = [pc EXCEPT ![p] = "done"]
         /\ UNCHANGED <<raised, tempfiles, history>>

\* an exception leaves create_event_folder: it was called outside upload()'s
\* try statement
FolderRaise(p, f, exc) ==
    /\ frame' = [frame EXCEPT ![p] = f]
    /\ outcome' = [outcome EXCEPT ![p] = "raise"]
    /\ raised' = [raised EXCEPT ![p] = exc]
    /\ pc' = [pc EXCEPT ![p] = "done"]
    /\ UNCHANGED <<tempfiles, history>>

\* find_or_create_folder returned id to the loop of lines 54 to 61
AfterFind(p, f, id) ==
    IF id = None THEN FolderReturn(p, f, None)
    ELSE IF f.part = Len(f.folder_path.parts) THEN FolderReturn(p, f, id)
    ELSE /\ frame' = [frame EXCEPT ![p] =
                         [f EXCEPT !.frigate_folder_id = id, !.part = f.part + 1]]
         /\ pc' = [pc EXCEPT ![p] = "files_list"]
         /\ UNCHANGED <<outcome, raised, tempfiles, history>>

\* lines 51 to 54: entering the method and its loop
EnterCreateEventFolder(p, f) ==
    IF f.uploader.class = "WebDavUploader" THEN FolderRaise(p, f, "RuntimeError")
    ELSE IF f.folder_path.kind = "Path" THEN FolderRaise(p, f, "TypeError")
    ELSE IF f.folder_path.parts = <<>> THEN FolderReturn(p, f, None)
    ELSE /\ frame' = [frame EXCEPT ![p] =
                         [f EXCEPT !.part = 1, !.frigate_folder_id = None]]
         /\ pc' = [pc EXCEPT ![p] = "files_list"]
         /\ UNCHANGED <<outcome, raised, tempfiles, history>>

\* line 95
CreateEventFolder(p) ==
    /\ pc[p] = "create_event_folder"
    /\ Log(p, <<"create_event_folder", JoinParts(frame[p].folder_path.parts)>>)
    /\ sent' = sent \cup {[event |-> frame[p].event, kind |-> "folder_path",
                           value |-> frame[p].folder_path.parts]}
    /\ EnterCreateEventFolder(p, frame[p])
    /\ UNCHANGED <<TIMEZONE, drive, uploaded, nextId, store>>

\* lines 31 to 36 and 44 to 49
FilesList(p) ==
    /\ pc[p] = "files_list"
    /\ LET f    == frame[p]
           name == f.folder_path.parts[f.part] IN
         /\ Log(p, <<"files.list", name>>)
         /\ \E answer \in ApiAnswers :
              CASE answer = "ok" ->
                     LET folder == ListQuery(drive, name, f.frigate_folder_id) IN
                       IF folder = {}
                       THEN /\ pc' = [pc EXCEPT ![p] = "files_create"]
                            /\ UNCHANGED <<frame, outcome, raised, tempfiles, history>>
                       ELSE \E first \in folder : AfterFind(p, f, first.id)
                [] answer = "HttpError" -> AfterFind(p, f, None)
                [] answer = "OtherError" -> FolderRaise(p, f, "OtherError")
    /\ UNCHANGED <<TIMEZONE, drive, uploaded, nextId, store, sent>>

\* lines 37 to 43 and 47 to 49
FilesCreate(p) ==
    /\ pc[p] = "files_create"
    /\ LET f    == frame[p]
           name == f.folder_path.parts[f.part] IN
         /\ Log(p, <<"files.create", name>>)
         /\ \E answer \in ApiAnswers :
              CASE answer = "ok" ->
                     /\ Cardinality(drive) < DriveQuota(f.entry)
                     /\ drive' = drive \cup
                          {[id |-> nextId, name |-> name, parent |-> f.frigate_folder_id]}
                     /\ nextId' = nextId + 1
                     /\ AfterFind(p, [f EXCEPT !.created = f.created + 1], nextId)
                [] answer = "HttpError" ->
                     /\ AfterFind(p, f, None)
                     /\ UNCHANGED <<drive, nextId>>
                [] answer = "OtherError" ->
                     /\ FolderRaise(p, f, "OtherError")
                     /\ UNCHANGED <<drive, nextId>>
    /\ UNCHANGED <<TIMEZONE, uploaded, store, sent>>

----------------------------------------------------------------------------
(* GenericUploader.upload, lines 100 to 125 *)

\* the lowest descriptor no open file has
FreeDescriptor(files) ==
    CHOOSE fd \in 3..(3 + Cardinality(files)) :
        /\ \A f \in files : f.fd # fd
        /\ \A lower \in 3..(fd - 1) : \E f \in files : f.fd = lower

\* line 101
TemporaryFile(p) ==
    /\ pc[p] = "TemporaryFile"
    /\ Log(p, <<"TemporaryFile">>)
    /\ \E answer \in {"ok", "OSError"} :
         IF answer = "ok"
         THEN LET fd == FreeDescriptor(tempfiles) IN
                /\ tempfiles' = tempfiles \cup {[fd |-> fd, owner |-> p]}
                /\ frame' = [frame EXCEPT ![p] =
                                [frame[p] EXCEPT !.fh = fd, !.written = 0, !.pos = 0]]
                /\ pc' = [pc EXCEPT ![p] = "get"]
                /\ UNCHANGED <<outcome, raised>>
         ELSE /\ Caught(p, answer)
              /\ UNCHANGED frame
    /\ UNCHANGED <<TIMEZONE, drive, uploaded, nextId, store, sent, history>>

\* What the Frigate server answers.  chunks is the number of chunks of the
\* body that arrive; breaks says the connection fails after them.
Bodies == {"clip", "other_message", "no_message", "not_json", "not_dict"}
Responses ==
    {[status_code |-> HTTP_OK, body |-> "video", chunks |-> n, breaks |-> b] :
        n \in 0..MaxChunks, b \in BOOLEAN}
    \cup {[status_code |-> HTTP_ERROR, body |-> b, chunks |-> 0, breaks |-> FALSE] :
        b \in Bodies}
    \cup {[status_code |-> HTTP_NOT_FOUND, body |-> "not_json", chunks |-> 0,
           breaks |-> FALSE]}

\* requests.RequestException subclasses and ssl.SSLError
TransportErrors == {"ConnectionError", "Timeout", "SSLError"}

\* line 102
Get(p) ==
    /\ pc[p] = "get"
    /\ Log(p, <<"get", frame[p].video_url>>)
    /\ \/ \E response \in Responses :
            /\ frame' = [frame EXCEPT ![p].response = response]
            /\ pc' = [pc EXCEPT ![p] = "status_code"]
            /\ UNCHANGED <<outcome, raised, tempfiles>>
       \/ \E exc \in TransportErrors :
            /\ Caught(p, exc)
            /\ UNCHANGED frame
    /\ UNCHANGED <<TIMEZONE, drive, uploaded, nextId, store, sent, history>>

\* lines 103 to 105: one turn of the chunk loop
IterContent(p) ==
    /\ pc[p] = "status_code"
    /\ frame[p].response.status_code = HTTP_OK
    /\ LET f == frame[p] IN
         IF f.written < f.response.chunks
         THEN /\ Log(p, <<"write">>)
              /\ frame' = [frame EXCEPT ![p] =
                              [f EXCEPT !.written = f.written + 1, !.pos = f.pos + 1]]
              /\ UNCHANGED <<pc, outcome, raised, tempfiles>>
         ELSE IF f.response.breaks
         THEN /\ Caught(p, "ChunkedEncodingError")
              /\ UNCHANGED <<frame, trace>>
         ELSE /\ pc' = [pc EXCEPT ![p] = "seek"]
              /\ UNCHANGED <<frame, trace, outcome, raised, tempfiles>>
    /\ UNCHANGED <<TIMEZONE, drive, uploaded, nextId, store, sent, history>>

\* Mutant of Seek: fh.seek(0) is missing.
SeekMissing(p) ==
    /\ pc[p] = "seek"
    /\ pc' = [pc EXCEPT ![p] = "upload_video_file"]
    /\ UNCHANGED <<TIMEZONE, frame, trace, outcome, raised, drive, uploaded, nextId,
                   store, tempfiles, sent, history>>

\* line 106
Seek(p) ==
    /\ pc[p] = "seek"
    /\ Log(p, <<"seek">>)
    /\ frame' = [frame EXCEPT ![p].pos = 0]
    /\ pc' = [pc EXCEPT ![p] = "upload_video_file"]
    /\ UNCHANGED <<TIMEZONE, outcome, raised, drive, uploaded, nextId, store,
                   tempfiles, sent, history>>

\* GoogleDriverUploader.upload_video_file, lines 63 to 77: what it returns for
\* an answer of files().create, "raise" when the exception leaves the method
UploadAnswers == {"id", "no_id", "HttpError", "OtherError"}
\* Mutant of GoogleUploadResult: the except clause of lines 75 to 77 is
\* missing.
GoogleUploadResultUncaught(answer) ==
    CASE answer = "id" -> "True"
      [] answer = "no_id" -> "False"
      [] OTHER -> "raise"

GoogleUploadResult(answer) ==
    CASE answer = "id" -> "True"
      [] answer = "no_id" -> "False"
      [] answer = "HttpError" -> "False"
      [] OTHER -> "raise"

\* line 108
UploadVideoFile(p) ==
    /\ pc[p] = "upload_video_file"
    /\ LET f == frame[p] IN
         /\ Log(p, <<"upload_video_file", f.filename>>)
         /\ sent' = sent \cup {[event |-> f.event, kind |-> "filename",
                                value |-> <<f.filename>>]}
         /\ IF f.uploader.class = "WebDavUploader"
            THEN \* GenericUploader.upload_video_file, line 74
                 /\ Caught(p, "RuntimeError")
                 /\ frame' = [frame EXCEPT ![p].upload_result = "raise"]
                 /\ UNCHANGED uploaded
            ELSE \E answer \in UploadAnswers :
                   LET result == GoogleUploadResult(answer) IN
                     /\ uploaded' = IF answer = "id"
                                    THEN uploaded \cup
                                           {[name |-> f.filename, parent |-> f.folder_info]}
                                    ELSE uploaded
                     /\ frame' = [frame EXCEPT ![p] =
                                     [f EXCEPT !.upload_answer = answer,
                                               !.upload_result = result]]
                     /\ IF result = "raise" THEN Caught(p, answer)
                        ELSE Return(p, result = "True")
    /\ UNCHANGED <<TIMEZONE, drive, nextId, store, history>>

\* response.json().get('message') == "Could not create clip from recordings",
\* or the exception the expression raises
JsonMessageError(body) ==
    CASE body = "not_json" -> "JSONDecodeError"
      [] body = "not_dict" -> "AttributeError"
      [] OTHER -> ""
\* response.json().get('message') of a body that is a JSON object
MessageOf(body) ==
    CASE body = "clip" -> ClipMessage
      [] body = "other_message" -> "Internal Server Error"
      [] OTHER -> "None"

\* Mutant of IsClipMessage: any message of a 500 response counts.
IsAnyMessage(body) == MessageOf(body) # "None"
\* line 109: the comparison with the message of a missing clip
IsClipMessage(body) == MessageOf(body) = ClipMessage

\* Mutant of StatusOther: a failed download that is not a missing clip is
\* requested again.
StatusOtherRetry(p) ==
    /\ pc[p] = "status_code"
    /\ frame[p].response.status_code # HTTP_OK
    /\ LET r == frame[p].response IN
         IF r.status_code = HTTP_ERROR /\ JsonMessageError(r.body) # ""
         THEN Caught(p, JsonMessageError(r.body))
         ELSE /\ pc' = [pc EXCEPT ![p] =
                          IF r.status_code = HTTP_ERROR /\ IsClipMessage(r.body)
                          THEN "select_tries" ELSE "get"]
              /\ UNCHANGED <<outcome, raised, tempfiles>>
    /\ UNCHANGED <<TIMEZONE, frame, trace, drive, uploaded, nextId, store, sent, history>>

\* lines 109, 117 and 118
StatusOther(p) ==
    /\ pc[p] = "status_code"
    /\ frame[p].response.status_code # HTTP_OK
    /\ LET r == frame[p].response IN
         IF r.status_code = HTTP_ERROR
         THEN IF JsonMessageError(r.body) # ""
              THEN Caught(p, JsonMessageError(r.body))
              ELSE IF IsClipMessage(r.body)
              THEN /\ pc' = [pc EXCEPT ![p] = "select_tries"]
                   /\ UNCHANGED <<outcome, raised, tempfiles>>
              ELSE Return(p, FALSE)
         ELSE Return(p, FALSE)
    /\ UNCHANGED <<TIMEZONE, frame, trace, drive, uploaded, nextId, store, sent, history>>

\* database.select_tries(event_id), as the specification describes it
select_tries(rows, event_id) == rows[event_id].tries

\* database.update_event(event_id, uploaded_flag, retry=...), as the
\* specification describes it
update_event(rows, event_id, flag, retry) ==
    [rows EXCEPT ![event_id] = Row(rows[event_id].tries, flag, retry)]

\* Mutant of TriesExhausted: the event is given up one try early.
TriesExhaustedEarly(tries) == tries >= TriesLimit - 1
\* Mutant of TriesExhausted: > for >=.
TriesExhaustedStrict(tries) == tries > TriesLimit
\* line 111: the count at which an event is given up
TriesExhausted(tries) == tries >= TriesLimit

\* line 111
SelectTries(p) ==
    /\ pc[p] = "select_tries"
    /\ Log(p, <<"select_tries", frame[p].event_info.event_id>>)
    /\ \E answer \in {"ok", "DatabaseError"} :
         IF answer = "ok"
         THEN LET tries == select_tries(store, frame[p].event_info.event_id) IN
                /\ frame' = [frame EXCEPT ![p].tries_read = tries]
                /\ IF TriesExhausted(tries)
                   THEN /\ pc' = [pc EXCEPT ![p] = "update_event"]
                        /\ UNCHANGED <<outcome, raised, tempfiles>>
                   ELSE Return(p, FALSE)
         ELSE /\ Caught(p, answer)
              /\ UNCHANGED frame
    /\ UNCHANGED <<TIMEZONE, drive, uploaded, nextId, store, sent, history>>

\* Mutant of UpdateEvent: the event is left retriable.
UpdateEventRetry(p) ==
    /\ pc[p] = "update_event"
    /\ Log(p, <<"update_event", frame[p].event_info.event_id, "0", "retry=1">>)
    /\ \E answer \in {"ok", "DatabaseError"} :
         IF answer = "ok"
         THEN /\ store' = update_event(store, frame[p].event_info.event_id, 0, 1)
              /\ Return(p, FALSE)
         ELSE /\ Caught(p, answer)
              /\ UNCHANGED store
    /\ UNCHANGED <<TIMEZONE, frame, drive, uploaded, nextId, sent, history>>

\* lines 112 to 116
UpdateEvent(p) ==
    /\ pc[p] = "update_event"
    /\ Log(p, <<"update_event", frame[p].event_info.event_id, "0", "retry=0">>)
    /\ \E answer \in {"ok", "DatabaseError"} :
         IF answer = "ok"
         THEN /\ store' = update_event(store, frame[p].event_info.event_id, 0, 0)
              /\ Return(p, FALSE)
         ELSE /\ Caught(p, answer)
              /\ UNCHANGED store
    /\ UNCHANGED <<TIMEZONE, frame, drive, uploaded, nextId, sent, history>>

----------------------------------------------------------------------------
(* The steps of one worker running upload() *)

UploadStep(p) ==
    \/ FromEventDict(p)
    \/ GenerateNames(p)
    \/ CreateEventFolder(p)
    \/ FilesList(p)
    \/ FilesCreate(p)
    \/ TemporaryFile(p)
    \/ Get(p)
    \/ IterContent(p)
    \/ Seek(p)
    \/ UploadVideoFile(p)
    \/ StatusOther(p)
    \/ SelectTries(p)
    \/ UpdateEvent(p)

----------------------------------------------------------------------------
(* The upload scenario: one caller invokes upload() again and again, with  *)
(* any event on any uploader.                                             *)

Init == InitCommon

Next ==
    \/ Call("w1", Events, Uploaders)
    \/ UploadStep("w1")

Spec == Init /\ [][Next]_vars

----------------------------------------------------------------------------------------------------------------------------------------
(* The folder scenario: one caller invokes create_event_folder() of a     *)
(* Google Drive uploader again and again, with any path.                  *)

\* The deepest path of the folder scenario
MaxDepth == 2
Names == {"a", "b"}

RECURSIVE SeqsUpTo(_)
SeqsUpTo(n) ==
    IF n = 0 THEN {<<>>}
    ELSE LET shorter == SeqsUpTo(n - 1) IN
           shorter \cup {Append(q, x) : q \in {r \in shorter : Len(r) = n - 1}, x \in Names}

FolderPaths ==
    {[kind |-> "Segments", parts |-> parts] : parts \in SeqsUpTo(MaxDepth)}
        \cup {[kind |-> "Path", parts |-> <<UPLOAD_DIR>>]}

\* A caller invokes create_event_folder(folder_path).
CallCreateEventFolder(p, paths) ==
    /\ pc[p] \in {"idle", "done"}
    /\ \E path \in paths :
         frame' = [frame EXCEPT ![p] =
                      [NoFrame EXCEPT !.entry = "create_event_folder",
                                      !.uploader = Uploader("GoogleDriverUploader", "segments"),
                                      !.folder_path = path]]
    /\ pc' = [pc EXCEPT ![p] = "enter"]
    /\ outcome' = [outcome EXCEPT ![p] = "none"]
    /\ raised' = [raised EXCEPT ![p] = ""]
    /\ trace' = [trace EXCEPT ![p] = <<>>]
    /\ history' = IF pc[p] = "done" /\ outcome[p] \in {"handle", "None"}
                  THEN <<[path |-> frame[p].folder_path.parts,
                          handle |-> frame[p].folder_info,
                          created |-> frame[p].created]>>
                  ELSE <<>>
    /\ UNCHANGED <<TIMEZONE, drive, uploaded, nextId, store, tempfiles, sent>>

\* lines 51 to 54 of a direct call
EnterDirect(p) ==
    /\ pc[p] = "enter"
    /\ Log(p, <<"create_event_folder", JoinParts(frame[p].folder_path.parts)>>)
    /\ EnterCreateEventFolder(p, frame[p])
    /\ UNCHANGED <<TIMEZONE, drive, uploaded, nextId, store, sent>>

InitFolder == InitCommon /\ TIMEZONE = "UTC" /\ store["abc123"].tries = 0

NextFolder ==
    \/ CallCreateEventFolder("w1", FolderPaths)
    \/ EnterDirect("w1")
    \/ FilesList("w1")
    \/ FilesCreate("w1")

SpecFolder == InitFolder /\ [][NextFolder]_vars

----------------------------------------------------------------------------
(* The concurrent scenario: two workers invoke upload() once each, for the *)
(* same event on Google Drive uploaders, in any interleaving.              *)

InitPair == InitCommon /\ TIMEZONE = "Europe/Istanbul"

CallOnce(p) ==
    /\ pc[p] = "idle"
    /\ Call(p, {EvA}, {Uploader("GoogleDriverUploader", "segments")})

NextPair ==
    \E p \in Workers :
        \/ CallOnce(p)
        \/ UploadStep(p)

SpecPair == InitPair /\ [][NextPair]_vars

----------------------------------------------------------------------------
(* The retry scenario: two workers invoke upload() once each for the same  *)
(* event, while the retry scheduler counts tries of that event.            *)

\* The retry scheduler records one more try of the event.
RecordTry(event_id) ==
    /\ store[event_id].tries < MaxTries
    /\ store' = [store EXCEPT ![event_id].tries = @ + 1]
    /\ UNCHANGED <<TIMEZONE, pc, frame, outcome, raised, trace, drive, uploaded,
                   nextId, tempfiles, sent, history>>

InitRetry ==
    /\ InitCommon
    /\ TIMEZONE = "UTC"
    /\ store[EvA.id].tries = TriesLimit - 1

NextRetry ==
    \/ \E p \in Workers :
          \/ CallOnce(p)
          \/ UploadStep(p)
    \/ RecordTry(EvA.id)

SpecRetry == InitRetry /\ [][NextRetry]_vars

----------------
(* What a finished or running call did *)

Calls(p, op) == {i \in DOMAIN trace[p] : trace[p][i][1] = op}
Called(p, op) == Calls(p, op) # {}
NeverCalled(p, ops) == \A op \in ops : ~Called(p, op)

\* upload() of worker p has ended, by a return or by an exception
Ended(p) == pc[p] = "done" /\ frame[p].entry = "upload"
\* the GET of the call returned a response with this status
GotStatus(p, status) == frame[p].response.status_code = status
\* the GET returned the 500 response that says the clip is not there yet
ClipNotReady(p) == GotStatus(p, HTTP_ERROR) /\ frame[p].response.body = "clip"

----------------------------------------------------------------------------
(* Properties of upload() *)

\* C1: upload() returns True if and only if the GET returned status 200 and
\* the backend's upload_video_file returned True; a call that ended in any
\* other way did not return True.
C1_TrueIffDownloadedAndUploaded ==
    \A p \in Workers :
        Ended(p) =>
            (outcome[p] = "True"
                <=> (GotStatus(p, HTTP_OK) /\ frame[p].upload_result = "True"))

C1_Witness ==
    /\ Ended("w1") /\ outcome["w1"] = "True"
    /\ GotStatus("w1", HTTP_OK) /\ frame["w1"].written = MaxChunks

\* C2: nothing escapes upload(): every call ends by returning a boolean.
C2_NothingEscapes ==
    \A p \in Workers : Ended(p) => outcome[p] \in {"True", "False"}

\* C3: on the 500 response with the clip message, a tries count below 10
\* means update_event is not called, a count of 10 or more means
\* update_event(event_id, 0, retry=0) is called exactly once; upload()
\* returns False either way and upload_video_file is not called.
C3_ClipNotReady ==
    \A p \in Workers :
        (Ended(p) /\ ClipNotReady(p)) =>
            /\ outcome[p] = "False"
            /\ ~Called(p, "upload_video_file")
            /\ (frame[p].tries_read >= 0 /\ frame[p].tries_read < TriesLimit)
                   => ~Called(p, "update_event")
            /\ frame[p].tries_read >= TriesLimit =>
                   /\ Cardinality(Calls(p, "update_event")) = 1
                   /\ \A i \in Calls(p, "update_event") :
                          trace[p][i] = <<"update_event", frame[p].event.id, "0", "retry=0">>

C3_Witness ==
    /\ Ended("w1") /\ ClipNotReady("w1")
    /\ frame["w1"].tries_read = TriesLimit
    /\ Called("w1", "update_event")
    /\ store[frame["w1"].event.id].retry = 0

\* C4: when create_event_folder returns nothing, upload() returns False
\* without a GET, a temporary file, an upload or a retry store access; a GET
\* happens only after create_event_folder returned a handle.
C4_FolderBeforeDownload ==
    \A p \in Workers :
        /\ (frame[p].entry = "upload" /\ frame[p].folder_returned
                /\ frame[p].folder_info = None) =>
               /\ pc[p] = "done" /\ outcome[p] = "False"
               /\ NeverCalled(p, {"get", "TemporaryFile", "upload_video_file",
                                  "select_tries", "update_event"})
        /\ Called(p, "get") =>
               /\ frame[p].folder_returned /\ frame[p].folder_info # None
               /\ Calls(p, "create_event_folder") # {}
               /\ \A i \in Calls(p, "create_event_folder"), j \in Calls(p, "get") : i < j

C4_Witness ==
    /\ Ended("w1") /\ frame["w1"].folder_returned /\ frame["w1"].folder_info = None
    /\ outcome["w1"] = "False"
    /\ Called("w1", "files.create")

\* C5: a status other than 200 and other than the 500 with the clip message
\* makes upload() return False without select_tries, update_event or
\* upload_video_file.
C5_OtherStatus ==
    \A p \in Workers :
        (Ended(p) /\ frame[p].response # NoResponse
            /\ ~GotStatus(p, HTTP_OK) /\ ~ClipNotReady(p)) =>
            /\ outcome[p] = "False"
            /\ NeverCalled(p, {"select_tries", "update_event", "upload_video_file"})

C5_Witness ==
    /\ Ended("w1") /\ GotStatus("w1", HTTP_ERROR)
    /\ frame["w1"].response.body = "other_message"
    /\ outcome["w1"] = "False"

\* C6: a transport exception of the download, raised by the GET or while
\* the body is streamed, makes upload() return False; it does not reach the
\* caller and upload_video_file is not called.
DownloadErrors == TransportErrors \cup {"ChunkedEncodingError"}
C6_TransportError ==
    \A p \in Workers :
        (Ended(p) /\ raised[p] \in DownloadErrors) =>
            /\ outcome[p] = "False"
            /\ ~Called(p, "upload_video_file")

C6_Witness ==
    /\ Ended("w1") /\ raised["w1"] = "ChunkedEncodingError"
    /\ frame["w1"].written > 0
    /\ outcome["w1"] = "False"

\* C8: malformed event data makes upload() return False, without any call
\* to the backend, the server or the retry store.
C8_MalformedReturnsFalse ==
    \A p \in Workers :
        (Ended(p) /\ frame[p].event \in MalformedEvents) =>
            /\ outcome[p] = "False"
            /\ trace[p] = <<>>

----------------------------------------------------------------------------
(* Properties of GoogleDriverUploader.create_event_folder *)

\* the folders of a chain that spells path from the root of the drive down
RECURSIVE Resolve(_, _, _)
Resolve(folders, parts, parent) ==
    IF parts = <<>> THEN {parent}
    ELSE UNION {Resolve(folders, Tail(parts), d.id) :
                  d \in {x \in folders : x.name = Head(parts) /\ x.parent = parent}}

\* create_event_folder of worker p has returned a handle
ReturnedHandle(p) ==
    pc[p] = "done" /\ frame[p].entry = "create_event_folder" /\ outcome[p] = "handle"

\* C9: create_event_folder is idempotent: a call that succeeds returns the
\* folder the path names from the root, and the next call with the same
\* path returns the same handle and creates no folder.
C9_Idempotent ==
    \A p \in Workers :
        ReturnedHandle(p) =>
            /\ frame[p].folder_info \in Resolve(drive, frame[p].folder_path.parts, None)
            /\ \A before \in {history[i] : i \in DOMAIN history} :
                  (before.path = frame[p].folder_path.parts /\ before.handle # None) =>
                      /\ frame[p].folder_info = before.handle
                      /\ frame[p].created = 0

----------------------------------------------------------------------------
(* Properties of the temporary file *)

\* the statements inside the with block of lines 101 to 118
InsideWith(p) ==
    pc[p] \in {"get", "status_code", "seek", "upload_video_file", "select_tries",
               "update_event"}

\* C7: the temporary file of a call is closed when the call has ended, on
\* every way out, and a call only ever uses the file it opened itself.
C7_TempfileReleased ==
    /\ \A p \in Workers :
          pc[p] \in {"idle", "done"} => \A f \in tempfiles : f.owner # p
    /\ \A p \in Workers :
          InsideWith(p) => [fd |-> frame[p].fh, owner |-> p] \in tempfiles
    /\ \A f \in tempfiles, g \in tempfiles : f.fd = g.fd => f.owner = g.owner
    /\ \A p \in Workers, q \in Workers :
          (p # q /\ InsideWith(p) /\ InsideWith(q)) => frame[p].fh # frame[q].fh

\* one call has ended by a fault after it opened its file, while the other
\* call still holds its own
C7_Witness ==
    /\ Ended("w1") /\ raised["w1"] # "" /\ frame["w1"].fh # None
    /\ pc["w2"] = "seek"
    /\ tempfiles = {[fd |-> frame["w2"].fh, owner |-> "w2"]}

----------------------------------------------------------------------------
(* Properties of upload_video_file *)

\* the Google Drive upload_video_file of the call of worker p has ended
GoogleUploadEnded(p) ==
    /\ Ended(p) /\ frame[p].uploader.class = "GoogleDriverUploader"
    /\ Called(p, "upload_video_file")

\* C11, as claimed: the Google Drive upload_video_file always ends with a
\* boolean.
C11_AlwaysBoolean ==
    \A p \in Workers :
        GoogleUploadEnded(p) => frame[p].upload_result \in {"True", "False"}

\* C11, amended: upload_video_file returns True exactly when files().create
\* returned a file id, and False when it returned none or raised HttpError;
\* only another exception leaves the method; and whenever upload_video_file
\* of any uploader returns False or raises, upload() returns False.
C11_UploadResult ==
    \A p \in Workers :
        /\ GoogleUploadEnded(p) =>
              /\ frame[p].upload_result = "True" <=> frame[p].upload_answer = "id"
              /\ frame[p].upload_answer \in {"no_id", "HttpError"}
                    => frame[p].upload_result = "False"
              /\ frame[p].upload_result = "raise"
                    => frame[p].upload_answer \notin {"id", "no_id", "HttpError"}
        /\ (Ended(p) /\ frame[p].upload_result \in {"False", "raise"})
              => outcome[p] = "False"

C11_Witness ==
    /\ GoogleUploadEnded("w1")
    /\ frame["w1"].upload_answer = "HttpError"
    /\ frame["w1"].upload_result = "False"
    /\ outcome["w1"] = "False"

----------------------------------------------------------------------------
(* Properties of the destination *)

\* upload() of worker p, called with a well-formed event, is past line 91
NamesGenerated(p) ==
    /\ frame[p].entry = "upload" /\ frame[p].event \in ValidEvents
    /\ pc[p] \notin {"idle", "from_event_dict", "generate_names"}

\* C12: for every valid event and base path, generate_folder_path(base) is
\* base/<year>/<month>/<day> of the local date that generate_filename()
\* embeds, and a path that create_event_folder can walk segment by segment.
C12_FolderPathOfDate ==
    \A p \in Workers :
        NamesGenerated(p) =>
            LET local == frame[p].event_info.start_time_local IN
              /\ raised[p] # "TypeError"
              /\ frame[p].folder_path.kind = "Segments"
              /\ frame[p].folder_path.parts =
                    upload_folder(frame[p].uploader).parts
                        \o <<ToString(local.year), ToString(local.month), ToString(local.day)>>
              /\ frame[p].filename =
                    ToString(local.year) \o "-" \o Pad2(local.month) \o "-" \o Pad2(local.day)
                        \o "-" \o Pad2(local.hour) \o "-" \o Pad2(local.minute) \o "-"
                        \o Pad2(local.second) \o "__" \o frame[p].event.camera \o "__"
                        \o frame[p].event.id \o ".mp4"

----------------------------------------------------------------------------
(* Properties of the order of the steps *)

\* C13: upload_video_file is called only on a 200 response, after every chunk
\* of the body was written and the file was rewound to its start.
C13_WholeBodyRewound ==
    \A p \in Workers :
        (pc[p] = "upload_video_file" \/ Called(p, "upload_video_file")) =>
            /\ GotStatus(p, HTTP_OK)
            /\ ~frame[p].response.breaks
            /\ frame[p].written = frame[p].response.chunks
            /\ Cardinality(Calls(p, "write")) = frame[p].response.chunks
            /\ frame[p].pos = 0
            /\ Cardinality(Calls(p, "seek")) = 1
            /\ \A w \in Calls(p, "write"), s \in Calls(p, "seek") : w < s
            /\ \A s \in Calls(p, "seek"), u \in Calls(p, "upload_video_file") : s < u

C13_Witness ==
    /\ Ended("w1") /\ Called("w1", "upload_video_file")
    /\ frame["w1"].written = MaxChunks /\ MaxChunks > 1
    /\ frame["w1"].pos = 0

\* C14: one upload() call calls create_event_folder, the GET,
\* upload_video_file, select_tries and update_event at most once each.
OncePerCall == {"create_event_folder", "get", "upload_video_file",
                "select_tries", "update_event"}
C14_NoRetry ==
    \A p \in Workers :
        frame[p].entry = "upload" =>
            \A op \in OncePerCall : Cardinality(Calls(p, op)) <= 1

C14_Witness ==
    /\ Ended("w1") /\ ClipNotReady("w1")
    /\ \A op \in OncePerCall \ {"upload_video_file"} :
           Cardinality(Calls("w1", op)) = 1
    /\ outcome["w1"] = "False"

\* the state of the attempt state machine an ended or running call is in
AttemptState(p) ==
    CASE pc[p] # "done" -> "Running"
      [] outcome[p] = "True" -> "Success"
      [] outcome[p] = "False" /\ frame[p].folder_returned
             /\ frame[p].folder_info = None -> "FolderFailed"
      [] outcome[p] = "False" /\ Called(p, "upload_video_file") -> "UploadFailed"
      [] outcome[p] = "False" -> "Fail"
      [] OTHER -> "Escaped"

TerminalStates == {"FolderFailed", "Success", "UploadFailed", "Fail"}

\* C15: an attempt never stops before its end, and it ends in one of the
\* terminal states FolderFailed, Success, UploadFailed or Fail with a boolean
\* result, True in Success only.
C15_EndsInTerminalState ==
    \A p \in Workers :
        frame[p].entry = "upload" =>
            /\ pc[p] \notin {"idle", "done"} => ENABLED UploadStep(p)
            /\ pc[p] = "done" =>
                  /\ AttemptState(p) \in TerminalStates
                  /\ outcome[p] \in {"True", "False"}
                  /\ outcome[p] = "True" <=> AttemptState(p) = "Success"

----------------------------------------------------------------------------
(* Properties of the retry store *)

\* the step writes the row of one event as update_event(event_id, 0, retry=0)
\* does, by a worker that read an exhausted count for a missing clip
WritesByUpdateEvent ==
    \E p \in Workers :
        /\ pc[p] = "update_event" /\ pc'[p] = "done"
        /\ ClipNotReady(p)
        /\ TriesExhausted(frame[p].tries_read)
        /\ store' = update_event(store, frame[p].event_info.event_id, 0, 0)

\* C16: upload() reads the retry store in the clip-not-ready branch only,
\* writes it by update_event(event_id, 0, retry=0) only and never changes a
\* tries count; an event whose count is below 10 is never marked
\* non-retriable, and a call that did not see the missing clip leaves the
\* store as it was.
C16_StoreFrame ==
    /\ [](\A p \in Workers : Called(p, "select_tries") => ClipNotReady(p))
    /\ [](\A e \in EventIds : store[e].tries < TriesLimit => store[e].retry = 1)
    /\ [][ /\ store' # store => WritesByUpdateEvent
           /\ \A e \in EventIds : store'[e].tries = store[e].tries ]_vars

C16_Witness ==
    /\ Ended("w1") /\ ClipNotReady("w1")
    /\ frame["w1"].tries_read = TriesLimit - 1
    /\ ~Called("w1", "update_event")
    /\ store[frame["w1"].event.id].retry = 1
    /\ outcome["w1"] = "False"

----------------------------------------------------------------------------
(* Properties of concurrent calls *)

\* create_event_folder of the upload() call of worker p returned a handle
GotFolder(p) ==
    frame[p].entry = "upload" /\ frame[p].folder_returned /\ frame[p].folder_info # None

\* C17: under every interleaving of two concurrent upload() calls for events
\* of one local date, no parent holds two folders of one name, and both
\* calls obtain the same leaf folder handle.
C17_OneFolderPerSegment ==
    /\ \A a \in drive, b \in drive :
           (a.name = b.name /\ a.parent = b.parent) => a.id = b.id
    /\ (GotFolder("w1") /\ GotFolder("w2")
            /\ frame["w1"].folder_path = frame["w2"].folder_path)
           => frame["w1"].folder_info = frame["w2"].folder_info

\* C18: of two concurrent upload() calls for one event that both get the
\* clip-not-ready response while the scheduler counts tries, a call calls
\* update_event only after it read a count of 10 or more itself, always as
\* update_event(event_id, 0, retry=0); both return False; and an event once
\* marked non-retriable is not made retriable again.
C18_ConcurrentRetry ==
    /\ [](\A p \in Workers :
             /\ (pc[p] = "update_event" \/ Called(p, "update_event")) =>
                    /\ ClipNotReady(p)
                    /\ frame[p].tries_read >= TriesLimit
             /\ \A i \in Calls(p, "update_event") :
                    trace[p][i] = <<"update_event", frame[p].event.id, "0", "retry=0">>
             /\ (Ended(p) /\ ClipNotReady(p)) => outcome[p] = "False")
    /\ [][\A e \in EventIds : store[e].retry = 0 => store'[e].retry = 0]_vars

\* both calls saw the missing clip: one read 9 and left the store alone, the
\* scheduler counted a try, the other read 10 and marked the event
C18_Witness ==
    /\ Ended("w1") /\ ClipNotReady("w1")
    /\ Ended("w2") /\ ClipNotReady("w2")
    /\ frame["w1"].tries_read = TriesLimit - 1 /\ ~Called("w1", "update_event")
    /\ frame["w2"].tries_read = TriesLimit /\ Called("w2", "update_event")
    /\ store[EvA.id].retry = 0
    /\ outcome["w1"] = "False" /\ outcome["w2"] = "False"

====
